---------------------------- MODULE Spec2Model ----------------------------
(***************************************************************************)
(* The ClickHouse relay of src-tauri/src/lib.rs: the four commands         *)
(* fetch_schema_tables, fetch_table_preview, run_query and                 *)
(* fetch_connection_status, each one call that validates its input,        *)
(* builds a query text, posts it once and normalizes the reply.            *)
(*                                                                         *)
(* A text is a sequence of one-character strings, so that trimming,        *)
(* upper-casing, substring tests and escaping are computed character by    *)
(* character as the Rust code computes them.                               *)
(***************************************************************************)
EXTENDS Integers, Sequences, FiniteSets, TLC

VARIABLES pc, cmd, input, sent, response, outcome, stages

vars == <<pc, cmd, input, sent, response, outcome, stages>>

---------------------------------------------------------------------------
(* Bounds of the model.                                                    *)

\* longest identifier offered as a sort column
MaxIdLen == 3

\* most clauses that follow the head of an offered query text
MaxClauses == 2

\* most data rows in a reply to the schema listing
MaxRows == 3

---------------------------------------------------------------------------
(* Option<T>                                                               *)

None == [some |-> FALSE]

Some(v) == [some |-> TRUE, val |-> v]

---------------------------------------------------------------------------
(* Text primitives of the Rust standard library.                           *)

\* the backtick character (U+0060), which a TLA+ string cannot hold
Backtick == "U+0060"

\* char::is_whitespace, over the characters the model offers
WhiteSpace == {" ", "\t", "\n", "\r"}

RECURSIVE trim_start(_)
trim_start(s) ==
    IF s # <<>> /\ Head(s) \in WhiteSpace THEN trim_start(Tail(s)) ELSE s

RECURSIVE trim_end(_)
trim_end(s) ==
    IF s # <<>> /\ s[Len(s)] \in WhiteSpace
    THEN trim_end(SubSeq(s, 1, Len(s) - 1))
    ELSE s

\* str::trim
trim(s) == trim_end(trim_start(s))

\* str::trim_end_matches(c): removes every trailing occurrence of c
RECURSIVE trim_end_matches(_, _)
trim_end_matches(s, c) ==
    IF s # <<>> /\ s[Len(s)] = c
    THEN trim_end_matches(SubSeq(s, 1, Len(s) - 1), c)
    ELSE s

is_empty(s) == Len(s) = 0

LowerLetters ==
    \* "abcdefghijklmnopqrstuvwxyz"
    <<"a", "b", "c", "d", "e", "f", "g", "h", "i", "j", "k", "l", "m", "n",
        "o", "p", "q", "r", "s", "t", "u", "v", "w", "x", "y", "z">>

UpperLetters ==
    \* "ABCDEFGHIJKLMNOPQRSTUVWXYZ"
    <<"A", "B", "C", "D", "E", "F", "G", "H", "I", "J", "K", "L", "M", "N",
        "O", "P", "Q", "R", "S", "T", "U", "V", "W", "X", "Y", "Z">>

\* char::to_uppercase over ASCII
UpperChar(c) ==
    IF \E i \in 1..Len(LowerLetters) : LowerLetters[i] = c
    THEN UpperLetters[CHOOSE i \in 1..Len(LowerLetters) : LowerLetters[i] = c]
    ELSE c

\* str::to_uppercase
to_uppercase(s) == [i \in 1..Len(s) |-> UpperChar(s[i])]

\* str::starts_with
starts_with(s, p) == Len(p) <= Len(s) /\ SubSeq(s, 1, Len(p)) = p

\* str::contains
contains(s, p) ==
    \E i \in 0..(Len(s) - Len(p)) : SubSeq(s, i + 1, i + Len(p)) = p

\* str::replace(from, to) for a one-character pattern
RECURSIVE replace(_, _, _)
replace(s, from, to) ==
    IF s = <<>> THEN <<>>
    ELSE (IF Head(s) = from THEN to ELSE <<Head(s)>>) \o replace(Tail(s), from, to)

\* Ord::clamp
clamp(x, lo, hi) == IF x < lo THEN lo ELSE IF x > hi THEN hi ELSE x

\* Option::unwrap_or
unwrap_or(o, d) == IF o.some THEN o.val ELSE d

Digits == <<"0", "1", "2", "3", "4", "5", "6", "7", "8", "9">>

\* Display for an unsigned integer: its decimal digits
RECURSIVE to_string(_)
to_string(n) ==
    IF n < 10 THEN <<Digits[n + 1]>>
    ELSE to_string(n \div 10) \o <<Digits[(n % 10) + 1]>>

\* the characters in the order of their code points, as str's Ord compares them
CodeOrder ==
    <<"\t", "\n", "\r", " ", "'", ".", "0", "1", "2", "3", "4", "5", "6", "7",
        "8", "9", ":", ";", "A", "B", "C", "D", "E", "F", "G", "H", "I", "J",
        "K", "L", "M", "N", "O", "P", "Q", "R", "S", "T", "U", "V", "W", "X",
        "Y", "Z", Backtick, "a", "b", "c", "d", "e", "f", "g", "h", "i", "j",
        "k", "l", "m", "n", "o", "p", "q", "r", "s", "t", "u", "v", "w", "x",
        "y", "z">>

Code(c) == CHOOSE i \in 1..Len(CodeOrder) : CodeOrder[i] = c

\* String's Ord: lexicographic on the characters, a proper prefix first
RECURSIVE str_lt(_, _)
str_lt(a, b) ==
    IF b = <<>> THEN FALSE
    ELSE IF a = <<>> THEN TRUE
    ELSE IF Head(a) = Head(b) THEN str_lt(Tail(a), Tail(b))
    ELSE Code(Head(a)) < Code(Head(b))

---------------------------------------------------------------------------
(* escape_identifier                                                       *)

\* a variant that doubles the first backtick only
escape_identifier_first_only(identifier) ==
    IF \E i \in 1..Len(identifier) : identifier[i] = Backtick
    THEN LET i == CHOOSE i \in 1..Len(identifier) :
                     /\ identifier[i] = Backtick
                     /\ \A j \in 1..(i - 1) : identifier[j] # Backtick
         IN SubSeq(identifier, 1, i) \o <<Backtick>>
            \o SubSeq(identifier, i + 1, Len(identifier))
    ELSE identifier

escape_identifier(identifier) == replace(identifier, Backtick, <<Backtick, Backtick>>)


---------------------------------------------------------------------------
(* Results: Result<T, String>                                              *)

Ok(v) == [ok |-> TRUE, value |-> v]

Err(msg) == [ok |-> FALSE, error |-> msg]

NoOutcome == [pending |-> TRUE]

NoResponse == [status |-> 0, body |-> None]

---------------------------------------------------------------------------
(* run_clickhouse_query, up to the request it sends.  client_ok is whether *)
(* Client::builder().build() succeeds.  The value is either the error      *)
(* returned before anything is sent, or the request handed to send().      *)

\* a variant that does not check the username
run_clickhouse_query_any_username(conn, query, client_ok) ==
    LET host == trim(conn.host) IN
    IF is_empty(host) THEN Err("Host is required")
    ELSE IF ~client_ok THEN Err("Could not initialize ClickHouse client")
    ELSE Ok([endpoint |-> (IF conn.secure THEN <<"h", "t", "t", "p",
        "s">> ELSE <<"h", "t", "t", "p">>)
                          \o <<":", "/",
                              "/">> \o host \o <<":">> \o to_string(conn.port) \o <<"/">>,
             username |-> trim(conn.username),
             password |-> conn.password,
             body     |-> query])

run_clickhouse_query(conn, query, client_ok) ==
    LET host == trim(conn.host) IN
    IF is_empty(host) THEN Err("Host is required")
    ELSE IF is_empty(trim(conn.username)) THEN Err("Username is required")
    ELSE IF ~client_ok THEN Err("Could not initialize ClickHouse client")
    ELSE Ok([endpoint |-> (IF conn.secure THEN <<"h", "t", "t", "p",
        "s">> ELSE <<"h", "t", "t", "p">>)
                          \o <<":", "/",
                              "/">> \o host \o <<":">> \o to_string(conn.port) \o <<"/">>,
             username |-> trim(conn.username),
             password |-> conn.password,
             body     |-> query])

\* StatusCode::is_success
is_success(status) == 200 <= status /\ status <= 299

---------------------------------------------------------------------------
(* Query builders.                                                         *)

\* fetch_schema_tables: the statement for one database, or for all but the
\* system databases
schema_tables_query(conn) ==
    IF conn.database.some /\ ~is_empty(trim(conn.database.val))
    \* "SELECT database, name, total_rows FROM system.tables WHERE datab"
    \* "ase = '"
    THEN <<"S", "E", "L", "E", "C", "T", " ", "d", "a", "t", "a", "b", "a",
        "s", "e", ",", " ", "n", "a", "m", "e", ",", " ", "t", "o", "t", "a",
        "l", "_", "r", "o", "w", "s", " ", "F", "R", "O", "M", " ", "s", "y",
        "s", "t", "e", "m", ".", "t", "a", "b", "l", "e", "s", " ", "W", "H",
        "E", "R", "E", " ", "d", "a", "t", "a", "b", "a", "s", "e", " ", "=",
        " ", "'">>
         \o replace(trim(conn.database.val), "'", <<"'", "'">>)
         \* "' ORDER BY name FORMAT JSON"
         \o <<"'", " ", "O", "R", "D", "E", "R", " ", "B", "Y", " ", "n", "a",
             "m", "e", " ", "F", "O", "R", "M", "A", "T", " ", "J", "S", "O",
             "N">>
    \* "SELECT database, name, total_rows FROM system.tables WHERE datab"
    \* "ase NOT IN ('INFORMATION_SCHEMA', 'information_schema', 'system'"
    \* ") ORDER BY database, name FORMAT JSON"
    ELSE <<"S", "E", "L", "E", "C", "T", " ", "d", "a", "t", "a", "b", "a",
        "s", "e", ",", " ", "n", "a", "m", "e", ",", " ", "t", "o", "t", "a",
        "l", "_", "r", "o", "w", "s", " ", "F", "R", "O", "M", " ", "s", "y",
        "s", "t", "e", "m", ".", "t", "a", "b", "l", "e", "s", " ", "W", "H",
        "E", "R", "E", " ", "d", "a", "t", "a", "b", "a", "s", "e", " ", "N",
        "O", "T", " ", "I", "N", " ", "(", "'", "I", "N", "F", "O", "R", "M",
        "A", "T", "I", "O", "N", "_", "S", "C", "H", "E", "M", "A", "'", ",",
        " ", "'", "i", "n", "f", "o", "r", "m", "a", "t", "i", "o", "n", "_",
        "s", "c", "h", "e", "m", "a", "'", ",", " ", "'", "s", "y", "s", "t",
        "e", "m", "'", ")", " ", "O", "R", "D", "E", "R", " ", "B", "Y", " ",
        "d", "a", "t", "a", "b", "a", "s", "e", ",", " ", "n", "a", "m", "e",
        " ", "F", "O", "R", "M", "A", "T", " ", "J", "S", "O", "N">>

\* fetch_table_preview: the direction keyword of the ORDER BY clause
sort_direction_keyword(sort_direction) ==
    IF sort_direction.some /\ sort_direction.val \in {<<"d", "e", "s",
        "c">>, <<"D", "E", "S", "C">>}
    THEN <<"D", "E", "S", "C">>
    ELSE <<"A", "S", "C">>

\* fetch_table_preview: the ORDER BY clause, empty without a sort column
order_clause(sort_column, sort_direction) ==
    IF sort_column.some /\ ~is_empty(trim(sort_column.val))
    THEN <<" ", "O", "R", "D", "E", "R", " ", "B", "Y", " ",
        Backtick>> \o escape_identifier(trim(sort_column.val)) \o <<Backtick,
        " ">>
         \o sort_direction_keyword(sort_direction)
    ELSE <<>>

\* fetch_table_preview: the limit applied
preview_limit(limit) == clamp(unwrap_or(limit, 200), 1, 1000)

\* fetch_table_preview: the statement, for a valid schema and table
table_preview_query(inp) ==
    <<"S", "E", "L", "E", "C", "T", " ", "*", " ", "F", "R", "O", "M", " ",
        Backtick>> \o escape_identifier(trim(inp.schema)) \o <<Backtick, ".",
        Backtick>>
    \o escape_identifier(trim(inp.table)) \o <<Backtick>>
    \o order_clause(inp.sort_column, inp.sort_direction)
    \o <<" ", "L", "I", "M", "I", "T",
        " ">> \o to_string(preview_limit(inp.limit)) \o <<" ", "F", "O", "R",
        "M", "A", "T", " ", "J", "S", "O", "N">>

\* run_query: the statement the builder works on
raw_query(query) == trim(trim_end_matches(trim(query), ";"))

\* run_query: the limit applied
query_limit(limit) == clamp(unwrap_or(limit, 500), 1, 10000)

\* run_query: whether a LIMIT is appended
appends_limit(uppercase_query) ==
    starts_with(uppercase_query, <<"S", "E", "L", "E", "C", "T",
        " ">>) /\ ~contains(uppercase_query, <<" ", "L", "I", "M", "I", "T",
        " ">>)

\* run_query: whether FORMAT JSON is appended
appends_format(uppercase_query) == ~contains(uppercase_query, <<"F", "O", "R",
    "M", "A", "T", " ">>)

\* run_query: the statement sent, for a non-blank raw query
run_query_text(raw, limit) ==
    LET uppercase_query == to_uppercase(raw)
        with_limit == IF appends_limit(uppercase_query)
                      THEN raw \o <<" ", "L", "I", "M", "I", "T",
                          " ">> \o to_string(query_limit(limit))
                      ELSE raw
    IN IF appends_format(uppercase_query)
       THEN with_limit \o <<" ", "F", "O", "R", "M", "A", "T", " ", "J", "S",
           "O", "N">>
       ELSE with_limit

\* fetch_connection_status: the fixed probe
status_query ==
    \* "SELECT version() AS version, currentDatabase() AS current_databa"
    \* "se FORMAT JSON"
    <<"S", "E", "L", "E", "C", "T", " ", "v", "e", "r", "s", "i", "o", "n",
        "(", ")", " ", "A", "S", " ", "v", "e", "r", "s", "i", "o", "n", ",",
        " ", "c", "u", "r", "r", "e", "n", "t", "D", "a", "t", "a", "b", "a",
        "s", "e", "(", ")", " ", "A", "S", " ", "c", "u", "r", "r", "e", "n",
        "t", "_", "d", "a", "t", "a", "b", "a", "s", "e", " ", "F", "O", "R",
        "M", "A", "T", " ", "J", "S", "O", "N">>


---------------------------------------------------------------------------
(* Response bodies.  A body is the text pre \o json \o post, where json,   *)
(* when present, stands for the serialization of one JSON object, and pre  *)
(* and post are characters around it.  A body without a JSON object keeps  *)
(* all its characters in post.                                             *)

Body(pre, json, post) == [pre |-> pre, json |-> json, post |-> post]

TextBody(chars) == Body(<<>>, None, chars)

\* str::trim on a body
body_trim(body) ==
    IF body.json.some
    THEN Body(trim_start(body.pre), body.json, trim_end(body.post))
    ELSE TextBody(trim(body.pre \o body.post))

\* str::is_empty on a body
body_is_empty(body) == ~body.json.some /\ is_empty(body.pre \o body.post)

\* serde_json: the JSON object a text holds, when the text is that object
\* with nothing but whitespace around it
from_str(body) ==
    IF body.json.some /\ is_empty(trim(body.pre)) /\ is_empty(trim(body.post))
    THEN body.json
    ELSE None

\* Deserialize for ClickHousePreviewResult {meta: Vec<{name}>, data: Vec<Value>}
decode_preview(body) ==
    LET d == from_str(body) IN
    IF /\ d.some
       /\ "meta" \in DOMAIN d.val
       /\ "data" \in DOMAIN d.val
       /\ \A i \in 1..Len(d.val.meta) : "name" \in DOMAIN d.val.meta[i]
    THEN Ok([meta |-> [i \in 1..Len(d.val.meta) |-> [name |-> d.val.meta[i].name]],
             data |-> d.val.data])
    ELSE Err("Could not parse ClickHouse response")

\* Deserialize for ClickHouseQueryResult {data: Vec<{database, name, total_rows}>}
decode_tables(body) ==
    LET d == from_str(body) IN
    IF /\ d.some
       /\ "data" \in DOMAIN d.val
       /\ \A i \in 1..Len(d.val.data) :
            {"database", "name"} \subseteq DOMAIN d.val.data[i]
    THEN Ok([data |-> [i \in 1..Len(d.val.data) |->
                [database   |-> d.val.data[i].database,
                 name       |-> d.val.data[i].name,
                 total_rows |-> IF "total_rows" \in DOMAIN d.val.data[i]
                                THEN Some(d.val.data[i].total_rows)
                                ELSE None]]])
    ELSE Err("Could not parse ClickHouse response")

\* Deserialize for ClickHouseStatusResult {data: Vec<{version, current_database}>}
decode_status(body) ==
    LET d == from_str(body) IN
    IF /\ d.some
       /\ "data" \in DOMAIN d.val
       /\ \A i \in 1..Len(d.val.data) :
            {"version", "current_database"} \subseteq DOMAIN d.val.data[i]
    THEN Ok([data |-> [i \in 1..Len(d.val.data) |->
                [version          |-> d.val.data[i].version,
                 current_database |-> d.val.data[i].current_database]]])
    ELSE Err("Could not parse ClickHouse response")

---------------------------------------------------------------------------
(* Response normalizers.                                                   *)

\* the column names of a decoded preview, in the order of meta
preview_columns(preview_result) ==
    [i \in 1..Len(preview_result.meta) |-> preview_result.meta[i].name]

\* fetch_schema_tables: the loop that files each row under its database in
\* a BTreeMap; grouped is a function from the keys present to their tables
RECURSIVE group_rows(_, _)
group_rows(rows, grouped) ==
    IF rows = <<>> THEN grouped
    ELSE LET row   == Head(rows)
             entry == [name |-> row.name, row_count |-> row.total_rows]
             keys  == DOMAIN grouped \cup {row.database}
         IN group_rows(Tail(rows),
                [k \in keys |->
                    IF k = row.database
                    THEN (IF k \in DOMAIN grouped THEN grouped[k] ELSE <<>>)
                         \o <<entry>>
                    ELSE grouped[k]])

\* a variant that yields the entries in descending order of key
RECURSIVE into_iter_descending(_)
into_iter_descending(grouped) ==
    IF DOMAIN grouped = {} THEN <<>>
    ELSE LET k == CHOOSE x \in DOMAIN grouped :
                     \A y \in DOMAIN grouped \ {x} : str_lt(y, x)
         IN <<[schema |-> k, tables |-> grouped[k]]>>
            \o into_iter_descending([y \in DOMAIN grouped \ {k} |-> grouped[y]])

\* BTreeMap::into_iter: the entries in ascending order of key
RECURSIVE into_iter(_)
into_iter(grouped) ==
    IF DOMAIN grouped = {} THEN <<>>
    ELSE LET k == CHOOSE x \in DOMAIN grouped :
                     \A y \in DOMAIN grouped \ {x} : str_lt(x, y)
         IN <<[schema |-> k, tables |-> grouped[k]]>>
            \o into_iter([y \in DOMAIN grouped \ {k} |-> grouped[y]])

\* fetch_schema_tables, from the body of a 2xx response
schema_tables_result(body) ==
    LET result == decode_tables(body) IN
    IF result.ok
    THEN Ok(into_iter(group_rows(result.value.data, <<>>)))
    ELSE result

\* fetch_table_preview, from the body of a 2xx response
table_preview_result(body) ==
    LET preview_result == decode_preview(body) IN
    IF preview_result.ok
    THEN Ok([columns |-> preview_columns(preview_result.value),
             rows    |-> preview_result.value.data])
    ELSE preview_result

\* a variant whose fallback keeps a blank body as it is
run_query_result_blank_kept(body) ==
    LET preview_result == decode_preview(body) IN
    IF preview_result.ok
    THEN Ok([columns |-> preview_columns(preview_result.value),
             rows    |-> preview_result.value.data])
    ELSE Ok([columns |-> <<<<"r", "e", "s", "u", "l", "t">>>>,
             rows    |-> <<[result |-> body_trim(body)]>>])

\* run_query, from the body of a 2xx response
run_query_result(body) ==
    LET preview_result == decode_preview(body) IN
    IF preview_result.ok
    THEN Ok([columns |-> preview_columns(preview_result.value),
             rows    |-> preview_result.value.data])
    ELSE Ok([columns |-> <<<<"r", "e", "s", "u", "l", "t">>>>,
             rows    |-> <<[result |-> IF body_is_empty(body_trim(body))
                                       \* "Query executed successfully"
                                       THEN TextBody(<<"Q", "u", "e", "r",
                                           "y", " ", "e", "x", "e", "c", "u",
                                           "t", "e", "d", " ", "s", "u", "c",
                                           "c", "e", "s", "s", "f", "u", "l",
                                           "l", "y">>)
                                       ELSE body_trim(body)]>>])

\* a variant that reports a status with empty fields when there is no row
connection_status_result_or_default(body, latency_ms) ==
    LET result == decode_status(body) IN
    IF ~result.ok THEN result
    ELSE LET row == IF result.value.data = <<>>
                    THEN [version |-> <<>>, current_database |-> <<>>]
                    ELSE Head(result.value.data)
         IN Ok([connected        |-> TRUE,
                latency_ms       |-> latency_ms,
                version          |-> row.version,
                current_database |-> row.current_database])

\* fetch_connection_status, from the body of a 2xx response
connection_status_result(body, latency_ms) ==
    LET result == decode_status(body) IN
    IF ~result.ok THEN result
    ELSE IF result.value.data = <<>> THEN Err("Could not read ClickHouse status")
    ELSE LET row == Head(result.value.data) IN
         Ok([connected        |-> TRUE,
             latency_ms       |-> latency_ms,
             version          |-> row.version,
             current_database |-> row.current_database])


---------------------------------------------------------------------------
(* The inputs offered to the commands.                                     *)

Hosts == {<<>>, <<" ", "h">>}

Usernames == {<<" ">>, <<"u", " ">>}

Connection(host, username, database, secure) ==
    [host |-> host, port |-> 8123, username |-> username, password |-> <<"p",
        "w">>,
     database |-> database, secure |-> secure]

\* ClickHouseConnectionInput, for the commands that take only a connection
ConnectionInputs ==
    {Connection(h, u, d, s) :
        h \in Hosts, u \in Usernames,
        d \in {None, Some(<<" ">>), Some(<<" ", "d", "'", "b",
            " ">>)}, s \in BOOLEAN}

\* ClickHouseConnectionInput, inside the larger requests
RequestConnections ==
    {Connection(h, u, None, FALSE) : h \in Hosts, u \in Usernames}

IdChars == {Backtick, "a", " "}

\* every text over IdChars of at most MaxIdLen characters
Identifiers == UNION {[1..n -> IdChars] : n \in 0..MaxIdLen}

\* TablePreviewInput
TablePreviewInputs ==
    {[connection |-> c, schema |-> s, table |-> t, limit |-> l,
      sort_column |-> sc, sort_direction |-> sd] :
        c \in RequestConnections,
        s \in {<<>>, <<" ", "s", Backtick, " ">>},
        t \in {<<" ">>, <<"t">>},
        l \in {None, Some(0), Some(7), Some(5000)},
        sc \in {None} \cup {Some(i) : i \in Identifiers},
        sd \in {None, Some(<<"d", "e", "s", "c">>), Some(<<"D", "E", "S",
            "C">>), Some(<<"D", "e", "s", "c">>), Some(<<"a", "s", "c">>)}}

Heads == {<<>>, <<"S", "E", "L", "E", "C", "T", " ", "1">>, <<"s", "e", "l",
    "e", "c", "t", " ", "1">>, <<"S", "e", "l", "e", "c", "t", "\t",
    "1">>, <<"S", "H", "O", "W", " ", "T", "A", "B", "L", "E", "S">>}

Clauses == {<<"L", "I", "M", "I", "T", " ", "1", "0">>, <<"L", "i", "m", "i",
    "t", " ", "3">>, <<"F", "O", "R", "M", "A", "T", " ", "J", "S", "O",
    "N">>, <<"f", "o", "r", "m", "a", "t", " ", "T", "a", "b", "S", "e", "p",
    "a", "r", "a", "t", "e", "d">>}

Separators == {<<" ">>, <<"\n">>}

Tails == {<<>>, <<";">>, <<";", ";">>, <<";", " ", ";">>}

\* every run of at most MaxClauses clauses, each after a separator
ClauseRuns ==
    UNION {[1..n -> Separators \X Clauses] : n \in 0..MaxClauses}

RECURSIVE JoinClauses(_)
JoinClauses(run) ==
    IF run = <<>> THEN <<>>
    ELSE Head(run)[1] \o Head(run)[2] \o JoinClauses(Tail(run))

QueryTexts ==
    {h \o JoinClauses(r) \o t : h \in Heads, r \in ClauseRuns, t \in Tails}

\* QueryInput
QueryInputs ==
    {[connection |-> c, query |-> q, limit |-> l] :
        c \in RequestConnections,
        q \in QueryTexts,
        l \in {None, Some(0), Some(20000)}}

---------------------------------------------------------------------------
(* The replies offered by the server.                                      *)

Statuses == {200, 500}

TableRows ==
    {[database |-> <<"a">>, name |-> <<"t">>, total_rows |-> 7],
     [database |-> <<"a">>, name |-> <<"u">>, total_rows |-> 0],
     [database |-> <<"a", "b">>, name |-> <<"t">>, total_rows |-> 7],
     [database |-> <<"b">>, name |-> <<"t">>],
     [database |-> <<"b">>, name |-> <<"u">>, total_rows |-> 7],
     [name |-> <<"t">>, total_rows |-> 7]}

StatusRows ==
    {[version |-> <<"2", "4", ".", "1">>, current_database |-> <<"d", "e",
        "f", "a", "u", "l", "t">>],
     [version |-> <<"2", "3", ".", "8">>, current_database |-> <<"d", "b">>],
     [version |-> <<"2", "4", ".", "1">>]}

PreviewDocuments ==
    {[meta |-> <<[name |-> <<"i", "d">>, type |-> <<"U", "I", "n", "t",
        "8">>], [name |-> <<"v", "a", "l">>, type |-> <<"S", "t", "r", "i",
        "n", "g">>]>>,
      data |-> <<[id |-> 2, val |-> <<"x">>], [id |-> 1, val |-> <<"y">>]>>],
     [meta |-> <<[type |-> <<"U", "I", "n", "t", "8">>]>>, data |-> <<>>],
     [data |-> <<>>]}

TextBodies == {TextBody(<<>>), TextBody(<<" ", "\n">>), TextBody(<<" ", "O",
    "k", ".", "\n">>)}

\* replies to the schema listing
SchemaBodies ==
    {Body(<<>>, Some([data |-> rows]), <<"\n">>) :
        rows \in UNION {[1..n -> TableRows] : n \in 0..MaxRows}}
    \cup {Body(<<>>, Some([meta |-> <<>>]), <<>>), TextBody(<<"O", "k", ".">>)}

\* replies to a preview or to a query; the last is a JSON object followed
\* by another character
PreviewBodies ==
    {Body(<<>>, Some(d), <<"\n">>) : d \in PreviewDocuments}
    \cup TextBodies
    \cup {Body(<<" ">>, Some([meta |-> <<[name |-> <<"i",
        "d">>]>>, data |-> <<>>]), <<"x">>)}

\* replies to the status probe
StatusBodies ==
    {Body(<<>>, Some([data |-> rows]), <<"\n">>) :
        rows \in UNION {[1..n -> StatusRows] : n \in 0..2}}
    \cup {Body(<<>>, Some([meta |-> <<>>]), <<>>), TextBody(<<>>)}

\* bodies of the responses that are not 2xx
ErrorBodies == {TextBody(<<>>), TextBody(<<"C", "o", "d", "e", ":", " ", "6",
    "2">>)}

Bodies(command, status) ==
    IF ~is_success(status) THEN ErrorBodies
    ELSE CASE command = "fetch_schema_tables" -> SchemaBodies
           [] command = "fetch_connection_status" -> StatusBodies
           [] OTHER -> PreviewBodies

\* what Instant::elapsed may measure, in milliseconds
Latencies == {1, 25}

---------------------------------------------------------------------------
(* The state machine of one call.                                          *)
(*   pc        "idle", "send" (awaiting send()), "body" (awaiting the      *)
(*             body of the response) or "done"                             *)
(*   cmd       the command invoked                                         *)
(*   input     its request                                                 *)
(*   sent      the HTTP requests sent, in order                            *)
(*   response  the status received (0 before any) and the body, once read  *)
(*   outcome   what the command returned                                   *)
(*   stages    the stages of section 4.5 entered, in order                 *)

Init ==
    /\ pc = "idle"
    /\ cmd = "none"
    /\ input = None
    /\ sent = <<>>
    /\ response = NoResponse
    /\ outcome = NoOutcome
    /\ stages = <<>>

\* the command returns result, having entered the stages before
Return(result, before) ==
    /\ pc' = "done"
    /\ outcome' = result
    /\ stages' = before \o <<"return">>

\* the command enters run_clickhouse_query with the built query: it returns
\* its error, or sends the request and awaits send()
Transport(conn, query, client_ok, before) ==
    LET r == run_clickhouse_query(conn, query, client_ok) IN
    IF r.ok
    THEN /\ sent' = Append(sent, r.value)
         /\ pc' = "send"
         /\ stages' = before \o <<"transport">>
         /\ outcome' = outcome
    ELSE /\ sent' = sent
         /\ Return(r, before \o <<"transport">>)

fetch_schema_tables ==
    /\ pc = "idle"
    /\ \E inp \in ConnectionInputs, client_ok \in BOOLEAN :
       /\ cmd' = "fetch_schema_tables"
       /\ input' = inp
       /\ response' = response
       /\ Transport(inp, schema_tables_query(inp), client_ok, <<"build">>)

fetch_table_preview ==
    /\ pc = "idle"
    /\ \E inp \in TablePreviewInputs, client_ok \in BOOLEAN :
       /\ cmd' = "fetch_table_preview"
       /\ input' = inp
       /\ response' = response
       /\ IF is_empty(trim(inp.schema))
          THEN sent' = sent /\ Return(Err("Schema is required"), <<"validate">>)
          ELSE IF is_empty(trim(inp.table))
          THEN sent' = sent /\ Return(Err("Table is required"), <<"validate">>)
          ELSE Transport(inp.connection, table_preview_query(inp), client_ok,
                         <<"validate", "build">>)

run_query ==
    /\ pc = "idle"
    /\ \E inp \in QueryInputs, client_ok \in BOOLEAN :
       /\ cmd' = "run_query"
       /\ input' = inp
       /\ response' = response
       /\ IF is_empty(raw_query(inp.query))
          THEN sent' = sent /\ Return(Err("Query is required"), <<"validate">>)
          ELSE Transport(inp.connection,
                         run_query_text(raw_query(inp.query), inp.limit),
                         client_ok, <<"validate", "build">>)

fetch_connection_status ==
    /\ pc = "idle"
    /\ \E inp \in ConnectionInputs, client_ok \in BOOLEAN :
       /\ cmd' = "fetch_connection_status"
       /\ input' = inp
       /\ response' = response
       /\ Transport(inp, status_query, client_ok, <<"build">>)

\* a variant that sends the request once more after a failed send()
SendFails_retry_once ==
    /\ pc = "send"
    /\ IF Len(sent) < 2
       THEN /\ sent' = Append(sent, sent[1])
            /\ UNCHANGED <<pc, outcome, stages>>
       ELSE /\ sent' = sent
            /\ Return(Err("Could not connect to ClickHouse"), stages)
    /\ UNCHANGED <<cmd, input, response>>

\* send() fails: no connection, or the timeout
SendFails ==
    /\ pc = "send"
    /\ Return(Err("Could not connect to ClickHouse"), stages)
    /\ UNCHANGED <<cmd, input, sent, response>>

\* send() yields a response with this status
ResponseArrives ==
    /\ pc = "send"
    /\ \E status \in Statuses : response' = [status |-> status, body |-> None]
    /\ pc' = "body"
    /\ UNCHANGED <<cmd, input, sent, outcome, stages>>

\* what the command makes of the body of a 2xx response
Normalize(command, body, latency_ms) ==
    CASE command = "fetch_schema_tables" -> schema_tables_result(body)
      [] command = "fetch_table_preview" -> table_preview_result(body)
      [] command = "run_query" -> run_query_result(body)
      [] command = "fetch_connection_status" ->
            connection_status_result(body, latency_ms)

\* the body of the response is read in full
BodyArrives ==
    /\ pc = "body"
    /\ \E body \in Bodies(cmd, response.status), latency_ms \in Latencies :
          /\ response' = [response EXCEPT !.body = Some(body)]
          /\ IF ~is_success(response.status)
             THEN Return([ok |-> FALSE, error |-> "ClickHouse returned",
                          status |-> response.status, body |-> body], stages)
             ELSE Return(Normalize(cmd, body, latency_ms),
                         stages \o <<"normalize">>)
    /\ UNCHANGED <<cmd, input, sent>>

\* reading the body fails
BodyFails ==
    /\ pc = "body"
    /\ IF ~is_success(response.status)
       THEN Return([ok |-> FALSE, error |-> "ClickHouse returned",
                    status |-> response.status,
                    \* "Unable to read error body"
                    body |-> TextBody(<<"U", "n", "a", "b", "l", "e", " ",
                        "t", "o", " ", "r", "e", "a", "d", " ", "e", "r", "r",
                        "o", "r", " ", "b", "o", "d", "y">>)], stages)
       ELSE Return(Err(IF cmd = "run_query"
                       THEN "Could not read ClickHouse response"
                       ELSE "Could not parse ClickHouse response"),
                   stages \o <<"normalize">>)
    /\ UNCHANGED <<cmd, input, sent, response>>

Next ==
    \/ fetch_schema_tables
    \/ fetch_table_preview
    \/ run_query
    \/ fetch_connection_status
    \/ SendFails
    \/ ResponseArrives
    \/ BodyArrives
    \/ BodyFails

Spec == Init /\ [][Next]_vars

\* send() and the reading of a body end, by the reply or by the timeout of
\* the client (Duration::from_secs(10)), and the runtime resumes the call
FairSpec ==
    /\ Spec
    /\ WF_vars(SendFails \/ ResponseArrives)
    /\ WF_vars(BodyArrives \/ BodyFails)


---------------------------------------------------------------------------
(* Vocabulary of the properties.                                           *)

\* a text with nothing but whitespace in it
Blank(s) == \A i \in 1..Len(s) : s[i] \in WhiteSpace

\* the connection descriptor of the call under way
ConnectionOf ==
    IF cmd \in {"fetch_table_preview", "run_query"} THEN input.connection ELSE input

Called == cmd # "none"

Requested == sent # <<>>

\* the words of a text: its maximal runs of non-whitespace characters
RECURSIVE Words(_)
Words(s) ==
    LET t == trim_start(s) IN
    IF t = <<>> THEN <<>>
    ELSE LET n == IF \E i \in 1..Len(t) : t[i] \in WhiteSpace
                  THEN (CHOOSE i \in 1..Len(t) :
                          /\ t[i] \in WhiteSpace
                          /\ \A j \in 1..(i - 1) : t[j] \notin WhiteSpace) - 1
                  ELSE Len(t)
         IN <<SubSeq(t, 1, n)>> \o Words(SubSeq(t, n + 1, Len(t)))

\* the statement holds the clause keyword kw as a word, in any letter case,
\* with an operand after it
HasClause(q, kw) ==
    LET w == Words(q) IN
    \E i \in 1..(Len(w) - 1) : to_uppercase(w[i]) = kw

\* the number of backticks of a text
RECURSIVE Backticks(_)
Backticks(s) ==
    IF s = <<>> THEN 0
    ELSE (IF Head(s) = Backtick THEN 1 ELSE 0) + Backticks(Tail(s))

\* a text without its backticks
WithoutBackticks(s) == SelectSeq(s, LAMBDA c : c # Backtick)

\* every maximal run of backticks of the text has even length
EvenBacktickRuns(s) ==
    \A i \in 1..Len(s), j \in 1..Len(s) :
        ( /\ i <= j
          /\ \A k \in i..j : s[k] = Backtick
          /\ (i = 1 \/ s[i - 1] # Backtick)
          /\ (j = Len(s) \/ s[j + 1] # Backtick) )
        => (j - i + 1) % 2 = 0

\* position of a stage in the order of section 4.5
StageOrder == <<"validate", "build", "transport", "normalize", "return">>

StageIndex(st) == CHOOSE i \in 1..Len(StageOrder) : StageOrder[i] = st

---------------------------------------------------------------------------
\* the input of the call under way fails a validation
InvalidInput ==
    \/ Blank(ConnectionOf.host)
    \/ Blank(ConnectionOf.username)
    \/ cmd = "fetch_table_preview" /\ (Blank(input.schema) \/ Blank(input.table))
    \/ cmd = "run_query" /\ raw_query(input.query) = <<>>

(* C1: a blank host or username, a blank schema or table (preview) or a    *)
(* query that is blank once normalized (run query) makes the command       *)
(* return an error without any HTTP request having been sent.              *)
C1_ValidationBeforeNetwork ==
    (Called /\ InvalidInput) =>
        (pc = "done" /\ ~outcome.ok /\ Len(sent) = 0)

\* C1 happens: the status probe refuses a blank username and sends nothing
C1_Witness ==
    /\ cmd = "fetch_connection_status"
    /\ ~Blank(input.host)
    /\ Blank(input.username)
    /\ outcome = Err("Username is required")
    /\ sent = <<>>

---------------------------------------------------------------------------
\* the text C2 says is sent for the normalized statement q
ExpectedQueryText(q, limit) ==
    q
    \o (IF starts_with(to_uppercase(q), <<"S", "E", "L", "E", "C", "T",
        " ">>) /\ ~HasClause(q, <<"L", "I", "M", "I", "T">>)
        THEN <<" ", "L", "I", "M", "I", "T", " ">>
             \o to_string(clamp(IF limit.some THEN limit.val ELSE 500, 1, 10000))
        ELSE <<>>)
    \o (IF ~HasClause(q, <<"F", "O", "R", "M", "A", "T">>) THEN <<" ", "F",
        "O", "R", "M", "A", "T", " ", "J", "S", "O", "N">> ELSE <<>>)

(* C2: run_query sends the normalized statement q, followed by LIMIT n     *)
(* exactly when q begins with SELECT and a space in any letter case and    *)
(* holds no LIMIT clause, followed by FORMAT JSON exactly when q holds no  *)
(* FORMAT clause; n is the limit clamped to 1..10000, 500 when absent.  A  *)
(* statement with a LIMIT clause never receives a second one.              *)
C2_SentText ==
    (cmd = "run_query" /\ Requested) =>
        sent[1].body = ExpectedQueryText(raw_query(input.query), input.limit)

---------------------------------------------------------------------------
\* the ORDER BY clause C3 says is sent
ExpectedOrder(inp) ==
    IF inp.sort_column.some /\ ~Blank(inp.sort_column.val)
    THEN <<" ", "O", "R", "D", "E", "R", " ", "B", "Y", " ",
        Backtick>> \o escape_identifier(trim(inp.sort_column.val)) \o <<Backtick,
        " ">>
         \o (IF inp.sort_direction.some
                /\ to_uppercase(inp.sort_direction.val) = <<"D", "E", "S",
                    "C">>
             THEN <<"D", "E", "S", "C">> ELSE <<"A", "S", "C">>)
    ELSE <<>>

\* the text C3 says is sent
ExpectedPreviewText(inp) ==
    <<"S", "E", "L", "E", "C", "T", " ", "*", " ", "F", "R", "O", "M", " ",
        Backtick>> \o escape_identifier(trim(inp.schema)) \o <<Backtick, ".",
        Backtick>>
    \o escape_identifier(trim(inp.table)) \o <<Backtick>> \o ExpectedOrder(inp)
    \o <<" ", "L", "I", "M", "I", "T", " ">>
    \o to_string(clamp(IF inp.limit.some THEN inp.limit.val ELSE 200, 1, 1000))
    \o <<" ", "F", "O", "R", "M", "A", "T", " ", "J", "S", "O", "N">>

(* C3: fetch_table_preview sends SELECT * FROM schema.table, both escaped  *)
(* and quoted, then the ORDER BY clause exactly when the sort column is    *)
(* present and not blank, with DESC when the direction is desc in any      *)
(* letter case and ASC otherwise, then LIMIT n FORMAT JSON with n the      *)
(* limit clamped to 1..1000, 200 when absent.                              *)
C3_PreviewText ==
    (cmd = "fetch_table_preview" /\ Requested) =>
        sent[1].body = ExpectedPreviewText(input)

---------------------------------------------------------------------------
\* the one-column, one-row result that holds a text
Synthetic(text) ==
    Ok([columns |-> <<<<"r", "e", "s", "u", "l",
        "t">>>>, rows |-> <<[result |-> text]>>])

IsSynthetic(o) ==
    /\ o.ok
    /\ o.value.columns = <<<<"r", "e", "s", "u", "l", "t">>>>
    /\ Len(o.value.rows) = 1
    /\ DOMAIN o.value.rows[1] = {"result"}
    /\ DOMAIN o.value.rows[1].result = {"pre", "json", "post"}

\* the body is a JSON object of the shape {meta: [{name}], data: [...]}
DecodesAsPreview(body) ==
    /\ body.json.some
    /\ Blank(body.pre) /\ Blank(body.post)
    /\ {"meta", "data"} \subseteq DOMAIN body.json.val
    /\ \A i \in 1..Len(body.json.val.meta) : "name" \in DOMAIN body.json.val.meta[i]

(* C4: run_query returns an error after a transport failure or a non-2xx   *)
(* status; the columns of meta and the rows of data, unchanged, when the   *)
(* 2xx body decodes; and the one-column, one-row result holding the        *)
(* trimmed body, or Query executed successfully for a blank body, exactly  *)
(* when the response was 2xx and its body did not decode.                  *)
C4_Outcome ==
    (cmd = "run_query" /\ Requested /\ pc = "done") =>
        LET success == is_success(response.status) /\ response.body.some
            body    == response.body.val
        IN /\ ~success => ~outcome.ok
           /\ (success /\ DecodesAsPreview(body)) =>
                 /\ outcome.ok
                 /\ outcome.value.columns =
                      [i \in 1..Len(body.json.val.meta) |-> body.json.val.meta[i].name]
                 /\ outcome.value.rows = body.json.val.data
           /\ (success /\ ~DecodesAsPreview(body)) =>
                 outcome = Synthetic(
                    IF ~body.json.some /\ Blank(body.pre \o body.post)
                    \* "Query executed successfully"
                    THEN TextBody(<<"Q", "u", "e", "r", "y", " ", "e", "x",
                        "e", "c", "u", "t", "e", "d", " ", "s", "u", "c", "c",
                        "e", "s", "s", "f", "u", "l", "l", "y">>)
                    ELSE body_trim(body))
           /\ IsSynthetic(outcome) <=> (success /\ ~DecodesAsPreview(body))

\* C4 happens: the body " Ok." and a newline of a 200 response comes back
\* as the single cell Ok.
C4_Witness ==
    /\ cmd = "run_query"
    /\ pc = "done"
    /\ response.status = 200
    /\ response.body = Some(TextBody(<<" ", "O", "k", ".", "\n">>))
    /\ outcome = Synthetic(TextBody(<<"O", "k", ".">>))

---------------------------------------------------------------------------
\* what C5 says of the escaped form of an identifier
Escapes(identifier) ==
    LET e == escape_identifier(identifier) IN
    /\ Backticks(e) = 2 * Backticks(identifier)
    /\ EvenBacktickRuns(e)
    /\ WithoutBackticks(e) = WithoutBackticks(identifier)

(* C5: escape_identifier turns an identifier with n backticks into a text  *)
(* with 2n backticks whose maximal runs of backticks all have even length  *)
(* and whose other characters are those of the identifier, in order.       *)
C5_EscapeIdentifier ==
    (cmd = "fetch_table_preview" /\ Requested /\ input.sort_column.some) =>
        /\ Escapes(input.sort_column.val)
        /\ Escapes(trim(input.sort_column.val))
        /\ Escapes(trim(input.schema))

\* C5 happens: a sort column that begins with two backticks is sent escaped
C5_Witness ==
    /\ cmd = "fetch_table_preview"
    /\ Requested
    /\ input.sort_column = Some(<<Backtick, Backtick, "a">>)
    /\ contains(sent[1].body, <<" ", "O", "R", "D", "E", "R", " ", "B", "Y",
        " ", Backtick, Backtick, Backtick, Backtick, Backtick, "a", Backtick,
        " ">>)

---------------------------------------------------------------------------
ListingReturned ==
    cmd = "fetch_schema_tables" /\ pc = "done" /\ outcome.ok

SchemasAscending(schemas) ==
    \A i \in 1..(Len(schemas) - 1) : str_lt(schemas[i].schema, schemas[i + 1].schema)

TablesAscending(tables) ==
    \A i \in 1..(Len(tables) - 1) : ~str_lt(tables[i + 1].name, tables[i].name)

\* the rows of one database, in the order of the reply, as table entries
RowsOf(rows, database) ==
    LET mine == SelectSeq(rows, LAMBDA r : r.database = database) IN
    [i \in 1..Len(mine) |->
        [name |-> mine[i].name,
         row_count |-> IF "total_rows" \in DOMAIN mine[i]
                       THEN Some(mine[i].total_rows) ELSE None]]

(* C6, as claimed: the schema listing returns its entries in strictly      *)
(* ascending order of schema name, and the tables of each entry in         *)
(* ascending order of table name, whatever the order of the rows of the    *)
(* reply.                                                                  *)
C6_Sorted ==
    ListingReturned =>
        /\ SchemasAscending(outcome.value)
        /\ \A i \in 1..Len(outcome.value) : TablesAscending(outcome.value[i].tables)

(* C6, amended: the entries are in strictly ascending order of schema      *)
(* name, one for each database of the reply, and the tables of an entry    *)
(* are the rows of its database in the order of the reply.                 *)
C6_GroupedInReplyOrder ==
    ListingReturned =>
        LET rows == response.body.val.json.val.data IN
        /\ SchemasAscending(outcome.value)
        /\ {outcome.value[i].schema : i \in 1..Len(outcome.value)}
             = {rows[i].database : i \in 1..Len(rows)}
        /\ \A i \in 1..Len(outcome.value) :
              outcome.value[i].tables = RowsOf(rows, outcome.value[i].schema)

\* C6 happens: a reply that lists database b before database ab comes back
\* as ab, then b with its two tables
C6_Witness ==
    /\ ListingReturned
    /\ Len(outcome.value) = 2
    /\ outcome.value[1].schema = <<"a", "b">>
    /\ outcome.value[2].schema = <<"b">>
    /\ Len(outcome.value[2].tables) = 2
    /\ response.body.val.json.val.data[1].database = <<"b">>

---------------------------------------------------------------------------
OnlySemicolonsAndWhitespace(s) ==
    \A i \in 1..Len(s) : s[i] \in WhiteSpace \cup {";"}

(* C7: the statement run_query works on ends with neither a semicolon nor  *)
(* whitespace, and a query text of semicolons and whitespace only is       *)
(* rejected with Query is required, no HTTP request being sent.            *)
C7_Normalized ==
    cmd = "run_query" =>
        LET q == raw_query(input.query) IN
        /\ Requested => (q # <<>> /\ q[Len(q)] \notin WhiteSpace \cup {";"})
        /\ q = <<>> => outcome = Err("Query is required")
        /\ OnlySemicolonsAndWhitespace(input.query) => sent = <<>>

---------------------------------------------------------------------------
\* the status probe has read the body of a 2xx response
StatusRead ==
    /\ cmd = "fetch_connection_status"
    /\ pc = "done"
    /\ is_success(response.status)
    /\ response.body.some

\* the data array of the reply, when the reply is a JSON object with one
ReplyData ==
    LET body == response.body.val IN
    IF body.json.some /\ "data" \in DOMAIN body.json.val
    THEN Some(body.json.val.data)
    ELSE None

(* C8: the status probe returns an error when the 2xx reply decodes to no  *)
(* data row, and every status it returns has connected true and the        *)
(* version and current database of the first data row of the reply.        *)
C8_Status ==
    /\ (StatusRead /\ ReplyData = Some(<<>>)) => ~outcome.ok
    /\ (cmd = "fetch_connection_status" /\ pc = "done" /\ outcome.ok) =>
          /\ StatusRead
          /\ ReplyData.some
          /\ ReplyData.val # <<>>
          /\ outcome.value.connected = TRUE
          /\ outcome.value.version = ReplyData.val[1].version
          /\ outcome.value.current_database = ReplyData.val[1].current_database

\* C8 happens: a 2xx reply with an empty data array ends in the error
C8_WitnessNoRows ==
    /\ StatusRead
    /\ ReplyData = Some(<<>>)
    /\ outcome = Err("Could not read ClickHouse status")

---------------------------------------------------------------------------
StagesInOrder ==
    \A i \in 1..(Len(stages) - 1) : StageIndex(stages[i]) < StageIndex(stages[i + 1])

Returned == outcome # NoOutcome

\* what holds of a call at every moment
SingleShotState ==
    /\ Len(sent) <= 1
    /\ StagesInOrder
    /\ Returned <=> pc = "done"
    /\ Returned <=> (stages # <<>> /\ stages[Len(stages)] = "return")
    /\ Returned =>
          \/ outcome.ok /\ DOMAIN outcome = {"ok", "value"}
          \/ ~outcome.ok /\ "error" \in DOMAIN outcome /\ "value" \notin DOMAIN outcome
    \* a transport or server failure skips the normalizer
    /\ (Returned /\ (response.status = 0 \/ ~is_success(response.status))) =>
          (~outcome.ok /\ \A i \in 1..Len(stages) : stages[i] # "normalize")
    \* a strict decoding failure is returned as the error
    /\ (Returned /\ cmd # "run_query" /\ is_success(response.status)
          /\ (~response.body.some \/ from_str(response.body.val) = None)) =>
          ~outcome.ok

\* what holds of every step of a call: none after the return, none that
\* sends a request but the first, and the stages only grow
SingleShotStep ==
    /\ ~Returned
    /\ (pc # "idle") => sent' = sent
    /\ Len(stages') >= Len(stages)
    /\ SubSeq(stages', 1, Len(stages)) = stages

(* C9: a call is single-shot.  It sends at most one HTTP request; its      *)
(* stages come in the order validate, build, transport, normalize, return, *)
(* none twice; after a failed send, a non-2xx status or a body that cannot *)
(* be decoded nothing more is sent and nothing runs but the return; and    *)
(* the call always ends with exactly one outcome, a value or an error.     *)
C9_SingleShot ==
    /\ [](SingleShotState)
    /\ [][SingleShotStep]_vars
    /\ (Called ~> Returned)

\* C9 happens: the schema listing sent its one request, send() failed and
\* the call returned the error without a normalize stage
C9_WitnessSendFailed ==
    /\ cmd = "fetch_schema_tables"
    /\ outcome = Err("Could not connect to ClickHouse")
    /\ Len(sent) = 1
    /\ stages = <<"build", "transport", "return">>

---------------------------------------------------------------------------
(* C10: when the normalized statement already holds a FORMAT clause,       *)
(* run_query appends nothing to it, so that no LIMIT added by the builder  *)
(* ever follows a FORMAT clause.                                           *)
C10_FormatUntouched ==
    (cmd = "run_query" /\ Requested /\ HasClause(raw_query(input.query), <<"F",
        "O", "R", "M", "A", "T">>)) =>
        sent[1].body = raw_query(input.query)

=============================================================================
